---- MODULE Spec2Model ----
\* OAuth2 token acquisition of adp-connection-node: the client-credentials
\* connection (lib/clientCredentials.js, kept as src/unnamed/part_000) and the
\* authorization-code connection (src/lib/authorizationCode.js), one instance
\* of each, driven by connect/refresh calls and by the completions of the
\* certificate loader (readCerts) and of the token transport (Post).
EXTENDS Integers, Sequences, FiniteSets, TLC

\* ---------------------------------------------------------------- bounds
MaxCalls == 2          \* connect/refresh invocations in one behaviour
MaxExpiresIn == 1      \* expires_in values 0..MaxExpiresIn in a response
StartNow == 59         \* clock (seconds) at construction
MaxTicks == 1          \* the clock advances at most this far past StartNow

\* ------------------------------------------------------------ constants
DefaultExpiration == 3600   \* config.connect.defaultexpiration (seconds)

Undefined == "undefined"
CC == "client_credentials"
AC == "authorization_code"
Conns == {CC, AC}
Invs == 1..MaxCalls

CertPath == "cert.pem"
KeyPath == "key.pem"
Paths == {CertPath, KeyPath}
FileContents == {"pemA", "pemB"}

\* JavaScript truthiness of a string-or-undefined value.
Truthy(s) == s # Undefined /\ s # ""

\* ---------------------------------------------------------------- values
NoDate == [defined |-> FALSE, at |-> 0]
DateAt(t) == [defined |-> TRUE, at |-> t]

NoToken ==
  [defined |-> FALSE, access_token |-> Undefined, has_expires_in |-> FALSE,
   expires_in |-> 0, tokenExpiration |-> NoDate]

\* Response bodies the transport can hand to parseTokenResponse.
ExpiresIn(h, e) ==
  [defined |-> TRUE, access_token |-> "abc", has_expires_in |-> h,
   expires_in |-> e, tokenExpiration |-> NoDate]

Tokens ==
  {NoToken}
    \cup { [ExpiresIn(TRUE, e) EXCEPT !.access_token = a] :
             a \in {Undefined, "abc"}, e \in 0..MaxExpiresIn }
    \cup { [ExpiresIn(FALSE, 0) EXCEPT !.access_token = a] :
             a \in {Undefined, "abc"} }

NoErr == [defined |-> FALSE, statusCode |-> 0, hasResponse |-> FALSE, body |-> Undefined]

\* Transport errors: a status code, with or without a response object.
Errs ==
  {NoErr,
   [defined |-> TRUE, statusCode |-> 401, hasResponse |-> FALSE, body |-> Undefined],
   [defined |-> TRUE, statusCode |-> 401, hasResponse |-> TRUE, body |-> "invalid_grant"]}

\* First argument of a completion callback.
NoEx == [kind |-> Undefined, statusCode |-> 0, oauthResponse |-> Undefined]
CertLoadError == [kind |-> "CertLoadError", statusCode |-> 0, oauthResponse |-> Undefined]

NoCerts == [defined |-> FALSE, map |-> [p \in Paths |-> Undefined]]

\* The most recent run of a handler: which invocation it belongs to (by), what it
\* was (connect, refresh, loader, post), the completion it was given (inErr,
\* inToken, inCerts, now), the callback stored when it began, and what it did: the
\* callback it invoked (cb, 0 for none) with its arguments, or that it threw.
NoLast ==
  [by |-> 0, kind |-> Undefined, inErr |-> NoErr, inToken |-> NoToken,
   inCerts |-> NoCerts, now |-> 0,
   stored |-> 0, cb |-> 0, err |-> NoEx, token |-> NoToken, certs |-> NoCerts,
   threw |-> FALSE]

NoPayload ==
  [built |-> FALSE, ca |-> Undefined, key |-> Undefined, cert |-> Undefined,
   strictSSL |-> FALSE, grant_type |-> Undefined, code |-> Undefined,
   redirect_uri |-> Undefined, client_id |-> Undefined, client_secret |-> Undefined,
   refresh_token |-> Undefined, scope |-> Undefined,
   auth_user |-> Undefined, auth_pass |-> Undefined, sendImmediately |-> FALSE]

\* One connect/refresh invocation: its connection, its arguments, where its flow
\* stands, how often the loader was called, the paths given to it and the bundle
\* it read, whether certificate acquisition is behind it, whether its completion
\* carried an error, and how many callback invocations its completions made.
NoFlow == [conn |-> Undefined, kind |-> Undefined, refreshToken |-> Undefined,
           phase |-> "Idle", loaderCalls |-> 0, paths |-> <<>>, bundle |-> NoCerts,
           passedCerts |-> FALSE, errored |-> FALSE, delivered |-> 0]

InProgress == {"LoadingCerts", "RequestingToken"}

VARIABLES
  conn,        \* the ADPAPIConnection configuration both instances were built from
  files,       \* content of the certificate and key files on disk
  st,          \* the connections' fields and the flows in progress
  nextInv      \* id of the next connect/refresh invocation (= id of its callback)

vars == <<conn, files, st, nextInv>>

\* certPaths as it would be without .filter(Boolean).
certPathsUnfiltered == <<conn.sslCertPath, conn.sslKeyPath>>

\* [conn.sslCertPath, conn.sslKeyPath].filter(Boolean)
certPaths == SelectSeq(<<conn.sslCertPath, conn.sslKeyPath>>, Truthy)

\* fs.readFileSync(path): throws when the path is undefined; the files at the
\* configured paths exist.
readFileSync(path) ==
  IF path \in Paths
    THEN [threw |-> FALSE, data |-> files[path]]
    ELSE [threw |-> TRUE, data |-> Undefined]

\* The resolution as it would be if the file were preferred to the inline string.
StringOrFilePrefersFile(str, path) ==
  IF path \in Paths
    THEN readFileSync(path)
    ELSE [threw |-> ~Truthy(str), data |-> str]

\* (conn.sslXString || fs.readFileSync(conn.sslXPath))
StringOrFile(str, path) ==
  IF Truthy(str) THEN [threw |-> FALSE, data |-> str] ELSE readFileSync(path)

\* agentOptions {ca, key, cert} and strictSSL of a request payload.
agentOptions ==
  LET ca == StringOrFile(conn.sslCertString, conn.sslCertPath)
      key == StringOrFile(conn.sslKeyString, conn.sslKeyPath)
      cert == StringOrFile(conn.sslCertString, conn.sslCertPath)
  IN [threw |-> ca.threw \/ key.threw \/ cert.threw,
      payload |-> [NoPayload EXCEPT !.built = TRUE, !.ca = ca.data,
                     !.key = key.data, !.cert = cert.data, !.strictSSL = FALSE]]

\* ClientCredentialsConnection.buildTokenRequestBody
buildTokenRequestBodyCC ==
  LET a == agentOptions
  IN [a EXCEPT !.payload = [@ EXCEPT !.auth_user = conn.clientId,
                                     !.auth_pass = conn.clientSecret,
                                     !.sendImmediately = TRUE,
                                     !.grant_type = CC]]

\* AuthorizationCodeConnection.buildTokenRequestBody
buildTokenRequestBodyAC ==
  LET a == agentOptions
  IN [a EXCEPT !.payload = [@ EXCEPT !.grant_type = AC,
                                     !.code = conn.authorizationCode,
                                     !.redirect_uri = conn.callbackUrl,
                                     !.client_id = conn.clientId,
                                     !.client_secret = conn.clientSecret]]

\* AuthorizationCodeConnection.buildRefreshTokenRequestBody
buildRefreshTokenRequestBody(refreshToken) ==
  LET a == agentOptions
  IN [a EXCEPT !.payload = [@ EXCEPT !.grant_type = "refresh_token",
                                     !.refresh_token = refreshToken,
                                     !.client_id = conn.clientId,
                                     !.client_secret = conn.clientSecret,
                                     !.scope = "openid profile api"]]

\* An exception leaves the running handler of invocation i.
Throw(s, i, where) ==
  [s EXCEPT !.thrown = @ \cup {[inv |-> i, where |-> where]},
            !.flows[i].phase = "Threw", !.last.threw = TRUE]

\* new Post(options, this.parseTokenResponse.bind(this))
Post(s, i, payload) ==
  [s EXCEPT !.posted[i] = payload, !.postCount[i] = @ + 1,
            !.flows[i].phase = "RequestingToken"]

\* ClientCredentialsConnection.getAccessToken
getAccessTokenCC(s, i) ==
  LET r == buildTokenRequestBodyCC
  IN IF r.threw THEN Throw(s, i, "getAccessToken") ELSE Post(s, i, r.payload)

\* The payload AuthorizationCodeConnection.getAccessToken chooses.
payloadAC(refreshToken) ==
  IF Truthy(refreshToken)
    THEN buildRefreshTokenRequestBody(refreshToken)
    ELSE buildTokenRequestBodyAC

\* AuthorizationCodeConnection.getAccessToken
getAccessTokenAC(s, i, refreshToken) ==
  LET r == payloadAC(refreshToken)
  IN IF r.threw THEN Throw(s, i, "getAccessToken") ELSE Post(s, i, r.payload)

\* getAccessToken of the connection c, reached once certificate acquisition is over.
getAccessToken(s, c, i, refreshToken) ==
  LET s1 == [s EXCEPT !.flows[i].passedCerts = TRUE]
  IN IF c = CC THEN getAccessTokenCC(s1, i) ELSE getAccessTokenAC(s1, i, refreshToken)

\* readCerts({certs: paths}, cb): the bundle the loader reads for the paths it
\* is given.
readCerts(paths) ==
  [defined |-> TRUE,
   map |-> [p \in Paths |->
              IF \E n \in 1..Len(paths) : paths[n] = p THEN files[p] ELSE Undefined]]

\* getCerts as it would be if it started the loader and requested the token
\* without waiting for the loader's completion.
getCertsNoWait(s, c, i, refreshToken) ==
  IF Len(certPaths) > 0
    THEN getAccessToken([s EXCEPT !.flows[i].loaderCalls = @ + 1,
                                  !.flows[i].paths = certPaths,
                                  !.flows[i].bundle = readCerts(certPaths)],
                        c, i, refreshToken)
    ELSE getAccessToken(s, c, i, refreshToken)

\* getCerts: call the loader when a path is configured, else request the token.
getCerts(s, c, i, refreshToken) ==
  IF Len(certPaths) > 0
    THEN [s EXCEPT !.flows[i].phase = "LoadingCerts",
                   !.flows[i].loaderCalls = @ + 1,
                   !.flows[i].paths = certPaths,
                   !.flows[i].bundle = readCerts(certPaths)]
    ELSE getAccessToken(s, c, i, refreshToken)

\* A handler of invocation i begins to run.
Enter(s, i, kind, c) ==
  [s EXCEPT !.last = [NoLast EXCEPT !.by = i, !.kind = kind, !.stored = s.cb[c]]]

\* connect as it would be if a pending callback were kept instead of replaced.
connectKeepsPending(s, c, i) ==
  getCerts([Enter(s, i, "connect", c) EXCEPT
              !.cb[c] = IF s.cb[c] = 0 THEN i ELSE s.cb[c],
              !.flows[i] = [NoFlow EXCEPT !.conn = c, !.kind = "connect"]],
           c, i, Undefined)

\* this.cb = cb; this.getCerts()
connect(s, c, i) ==
  getCerts([Enter(s, i, "connect", c) EXCEPT
              !.cb[c] = i,
              !.flows[i] = [NoFlow EXCEPT !.conn = c, !.kind = "connect"]],
           c, i, Undefined)

\* this.cb = cb; this.getCerts(refreshToken)
refresh(s, i, refreshToken) ==
  getCerts([Enter(s, i, "refresh", AC) EXCEPT
              !.cb[AC] = i,
              !.flows[i] = [NoFlow EXCEPT !.conn = AC, !.kind = "refresh",
                                          !.refreshToken = refreshToken]],
           AC, i, refreshToken)

\* new ConnectionException({statusCode, oauthResponse})
ConnectionException(statusCode, oauthResponse) ==
  [kind |-> "ConnectionException", statusCode |-> statusCode,
   oauthResponse |-> oauthResponse]

\* this.cb(first, second), run by a completion of invocation i: calling an
\* undefined this.cb throws a TypeError.
callCb(s, c, i, ex, token, certs) ==
  LET k == s.cb[c]
  IN IF k = 0
       THEN Throw(s, i, "this.cb")
       ELSE [s EXCEPT !.calls[k] = @ + 1,
                      !.flows[i].delivered = @ + 1,
                      !.last.cb = k, !.last.err = ex,
                      !.last.token = token, !.last.certs = certs]

\* readCertsCb as it would be if the loader's error were wrapped in a
\* ConnectionException like a transport failure.
readCertsCbWraps(s, i, err, certs) ==
  LET c == s.flows[i].conn
      s0 == [Enter(s, i, "loader", c) EXCEPT !.last.inCerts = certs]
  IN IF err
       THEN callCb([s0 EXCEPT !.flows[i].phase = "Failed", !.flows[i].errored = TRUE],
                   c, i, ConnectionException(0, Undefined), NoToken, certs)
       ELSE getAccessToken([s0 EXCEPT !.certs[c] = certs], c, i,
                           s.flows[i].refreshToken)

\* readCertsCb(err, certs), the loader's completion for invocation i.
readCertsCb(s, i, err, certs) ==
  LET c == s.flows[i].conn
      s0 == [Enter(s, i, "loader", c) EXCEPT !.last.inCerts = certs]
  IN IF err
       THEN callCb([s0 EXCEPT !.flows[i].phase = "Failed", !.flows[i].errored = TRUE],
                   c, i, CertLoadError, NoToken, certs)
       ELSE getAccessToken([s0 EXCEPT !.certs[c] = certs], c, i,
                           s.flows[i].refreshToken)

\* setSeconds as it would be if it added v to the instant.
setSecondsAdds(t, v) == t + v

\* date.setSeconds(v) on a Date holding the instant t.
setSeconds(t, v) == t - (t % 60) + v

\* setTokenExpiration as it would be if the expiry were attached to the token
\* handed in and not stored on the connection.
setTokenExpirationNotStored(s, token, now) ==
  LET secs == IF token.has_expires_in /\ token.expires_in # 0
                THEN token.expires_in ELSE DefaultExpiration
  IN [s EXCEPT !.tokenExpirationMs[CC] = DateAt(secs * 1000)]

\* ClientCredentialsConnection.setTokenExpiration
setTokenExpirationCC(s, token, now) ==
  LET secs == IF token.has_expires_in /\ token.expires_in # 0
                THEN token.expires_in ELSE DefaultExpiration
      ms == secs * 1000
  IN [s EXCEPT !.tokenExpirationMs[CC] = DateAt(ms),
               !.tokenExpiration[CC] = DateAt(setSeconds(now, (now % 60) + (ms \div 1000)))]

\* setTokenExpiration as it would be if the expiration were kept in a variable
\* of the module, shared by every connection.
setTokenExpirationShared(s, token, now) ==
  LET sum == (now % 60) + token.expires_in
      v == IF token.has_expires_in /\ sum # 0 THEN sum ELSE DefaultExpiration
  IN [s EXCEPT !.tokenExpiration = [c \in Conns |-> DateAt(setSeconds(now, v))]]

\* AuthorizationCodeConnection.setTokenExpiration:
\* date.getSeconds() + token.expires_in || config.connect.defaultexpiration
setTokenExpirationAC(s, token, now) ==
  LET sum == (now % 60) + token.expires_in
      v == IF token.has_expires_in /\ sum # 0 THEN sum ELSE DefaultExpiration
  IN [s EXCEPT !.tokenExpiration[AC] = DateAt(setSeconds(now, v))]

\* The transport's completion (err, token) for invocation i reaches the handler.
Receive(s, i, c, err, token, now) ==
  [Enter(s, i, "post", c) EXCEPT !.last.inErr = err, !.last.inToken = token,
                                 !.last.now = now, !.flows[i].errored = err.defined]

\* ClientCredentialsConnection.parseTokenResponse
parseTokenResponseCC(s, i, err, token, now) ==
  LET ex == IF err.defined
              THEN ConnectionException(err.statusCode,
                                       IF err.hasResponse THEN err.body ELSE Undefined)
              ELSE NoEx
      s1 == [s EXCEPT !.flows[i].phase = IF err.defined THEN "Failed" ELSE "Completed"]
      s2 == IF ~token.defined \/ ~Truthy(token.access_token)
              THEN s1 ELSE setTokenExpirationCC(s1, token, now)
  IN IF s2.cb[CC] # 0
       THEN [callCb(s2, CC, i, ex, token, NoCerts) EXCEPT !.cb[CC] = 0]
       ELSE s2

\* parseTokenResponse as it would be if the expiration were set for every
\* response, with or without an access_token.
parseTokenResponseACAlwaysSets(s, i, err, token, now) ==
  IF err.defined /\ ~err.hasResponse
    THEN Throw(s, i, "parseTokenResponse")
    ELSE
      LET ex == IF err.defined
                  THEN ConnectionException(err.statusCode, err.body) ELSE NoEx
          s1 == [s EXCEPT !.flows[i].phase =
                            IF err.defined THEN "Failed" ELSE "Completed"]
      IN callCb(setTokenExpirationAC(s1, token, now), AC, i, ex, token, NoCerts)

\* AuthorizationCodeConnection.parseTokenResponse
parseTokenResponseAC(s, i, err, token, now) ==
  IF err.defined /\ ~err.hasResponse
    THEN Throw(s, i, "parseTokenResponse")
    ELSE
      LET ex == IF err.defined
                  THEN ConnectionException(err.statusCode, err.body) ELSE NoEx
          s1 == [s EXCEPT !.flows[i].phase =
                            IF err.defined THEN "Failed" ELSE "Completed"]
          s2 == IF ~token.defined \/ ~Truthy(token.access_token)
                  THEN s1 ELSE setTokenExpirationAC(s1, token, now)
      IN callCb(s2, AC, i, ex, token, NoCerts)

\* this.parseTokenResponse of the connection invocation i was made on.
parseTokenResponse(s, i, err, token, now) ==
  LET c == s.flows[i].conn
      s0 == Receive(s, i, c, err, token, now)
  IN IF c = CC
       THEN parseTokenResponseCC(s0, i, err, token, now)
       ELSE parseTokenResponseAC(s0, i, err, token, now)

\* ------------------------------------------------------------- the machine
Configs ==
  [sslCertPath : {Undefined, CertPath}, sslKeyPath : {Undefined, KeyPath},
   sslCertString : {Undefined, "CERTSTR"}, sslKeyString : {Undefined, "KEYSTR"},
   clientId : {"id"}, clientSecret : {"secret"}, authorizationCode : {"code"},
   callbackUrl : {"https://cb"}, tokenUrl : {"https://token"}]

RefreshTokens == {"", "rt1"}

Init ==
  /\ conn \in Configs
  /\ files = [p \in Paths |-> "pemA"]
  /\ nextInv = 1
  /\ st = [cb |-> [c \in Conns |-> 0],
           certs |-> [c \in Conns |-> NoCerts],
           tokenExpiration |-> [c \in Conns |-> NoDate],
           tokenExpirationMs |-> [c \in Conns |-> NoDate],
           flows |-> [i \in Invs |-> NoFlow],
           posted |-> [i \in Invs |-> NoPayload],
           postCount |-> [i \in Invs |-> 0],
           calls |-> [i \in Invs |-> 0],
           last |-> NoLast,
           clobbered |-> {},
           thrown |-> {}]

\* The callback this invocation overwrites while that callback's own flow is
\* still in progress, with the number of times it had been invoked by then.
Overlap(s, c, i) ==
  LET k == s.cb[c]
  IN IF k # 0 /\ s.flows[k].phase \in InProgress
       THEN [s EXCEPT !.clobbered = @ \cup {[old |-> k, new |-> i, callsAt |-> s.calls[k]]}]
       ELSE s

\* connect(cb) on either connection; the callback is identified with the invocation.
Connect(c) ==
  /\ nextInv <= MaxCalls
  /\ st' = connect(Overlap(st, c, nextInv), c, nextInv)
  /\ nextInv' = nextInv + 1
  /\ UNCHANGED <<conn, files>>

\* refresh(refreshToken, cb) on the authorization-code connection.
Refresh(refreshToken) ==
  /\ nextInv <= MaxCalls
  /\ st' = refresh(Overlap(st, AC, nextInv), nextInv, refreshToken)
  /\ nextInv' = nextInv + 1
  /\ UNCHANGED <<conn, files>>

\* The certificate loader completes for invocation i, with or without an error.
LoaderDone(i, err) ==
  /\ st.flows[i].phase = "LoadingCerts"
  /\ st' = readCertsCb(st, i, err, IF err THEN NoCerts ELSE st.flows[i].bundle)
  /\ UNCHANGED <<conn, files, nextInv>>

\* The transport completes the POST of invocation i with (err, token) while the
\* clock reads now.
PostDone(i, err, token, now) ==
  /\ st.flows[i].phase = "RequestingToken"
  /\ st' = parseTokenResponse(st, i, err, token, now)
  /\ UNCHANGED <<conn, files, nextInv>>

\* Responses that differ in what the handler branches on.
SomeTokens ==
  {NoToken, [ExpiresIn(FALSE, 0) EXCEPT !.access_token = Undefined], ExpiresIn(TRUE, 1)}

\* Overlapping invocations on both connections, every completion order.
Next ==
  \/ \E c \in Conns : Connect(c)
  \/ \E r \in RefreshTokens : Refresh(r)
  \/ \E i \in Invs, err \in BOOLEAN : LoaderDone(i, err)
  \/ \E i \in Invs, err \in Errs, token \in SomeTokens : PostDone(i, err, token, StartNow)

Spec == Init /\ [][Next]_vars

\* Clock readings: the seconds field takes the values 59, 0, ...
Times == StartNow..(StartNow + MaxTicks)

\* One invocation, with every response body at every clock reading.
NextExp ==
  \/ \E c \in Conns : nextInv = 1 /\ Connect(c)
  \/ \E r \in RefreshTokens : nextInv = 1 /\ Refresh(r)
  \/ \E i \in Invs, err \in BOOLEAN : LoaderDone(i, err)
  \/ \E i \in Invs, err \in Errs, token \in Tokens, now \in Times :
        PostDone(i, err, token, now)

SpecExp == Init /\ [][NextExp]_vars

\* The file at path p is rewritten with the content v between two handlers.
WriteFile(p, v) ==
  /\ files[p] # v
  /\ files' = [files EXCEPT ![p] = v]
  /\ UNCHANGED <<conn, st, nextInv>>

\* Two successful invocations while the certificate and key files change on disk.
NextFiles ==
  \/ \E c \in Conns : nextInv <= 2 /\ Connect(c)
  \/ \E r \in RefreshTokens : nextInv <= 2 /\ Refresh(r)
  \/ \E i \in Invs : LoaderDone(i, FALSE)
  \/ \E i \in Invs : PostDone(i, NoErr, ExpiresIn(TRUE, 1), StartNow)
  \/ \E p \in Paths, v \in FileContents : WriteFile(p, v)

SpecFiles == Init /\ [][NextFiles]_vars

\* ------------------------------------------------------------------ claims
Started(i) == st.flows[i].phase # "Idle"

\* C1: no callback passed to connect or refresh is invoked more than once, and
\* every error a completion carries (a certificate-load error or a transport
\* failure) and the handler ran to its end with is delivered to a callback
\* exactly once.
C1_CallbacksAndErrorsExactlyOnce ==
  /\ \A k \in Invs : st.calls[k] <= 1
  /\ \A i \in Invs :
       (st.flows[i].errored /\ st.flows[i].phase = "Failed")
         => st.flows[i].delivered = 1

\* C2: when connect/refresh stores a callback while the previously stored
\* callback's flow is still in progress, the earlier callback is not invoked
\* from then on; not invoked before either, it is never invoked, so the two
\* callbacks are never both invoked.
C2_ReplacedCallbackNeverInvoked ==
  \A r \in st.clobbered :
    /\ st.calls[r.old] = r.callsAt
    /\ r.callsAt = 0 => ~(st.calls[r.old] > 0 /\ st.calls[r.new] > 0)

\* C2 witness: a second invocation overlapped the first, both flows are over,
\* the second callback was invoked and the first never.
C2_Witness ==
  \E r \in st.clobbered :
    /\ r.callsAt = 0 /\ st.calls[r.new] > 0 /\ st.calls[r.old] = 0
    /\ st.flows[r.old].phase \in {"Completed", "Failed"}
    /\ st.flows[r.new].phase \in {"Completed", "Failed"}

\* C3: a flow that reached a terminal state has had the stored callback
\* invoked, and a connection all of whose flows have reached a terminal state
\* stores no callback.
C3_TerminalClearsCallback ==
  /\ \A i \in Invs :
       st.flows[i].phase \in {"Completed", "Failed"} => st.flows[i].delivered = 1
  /\ \A c \in Conns :
       (\A i \in Invs :
          st.flows[i].conn = c => st.flows[i].phase \in {"Completed", "Failed"})
         => st.cb[c] = 0

\* C4: every invocation whose flow has passed certificate acquisition has
\* issued exactly one POST, and no other invocation has issued any.
C4_OnePostPerInvocation ==
  \A i \in Invs :
    st.postCount[i] = IF st.flows[i].passedCerts THEN 1 ELSE 0

\* C5: with no certificate path and no inline certificate string configured,
\* connect does not throw, does not call the loader and issues the POST, and a
\* successful transport completion hands the token to the callback.
NoCertConfig ==
  /\ ~Truthy(conn.sslCertPath) /\ ~Truthy(conn.sslKeyPath)
  /\ ~Truthy(conn.sslCertString) /\ ~Truthy(conn.sslKeyString)

C5_ConnectWithoutCertificates ==
  NoCertConfig =>
    \A i \in Invs :
      (Started(i) /\ st.flows[i].kind = "connect") =>
        /\ st.flows[i].paths = <<>>
        /\ st.postCount[i] = 1
        /\ \A t \in st.thrown : t.inv # i

\* C6: on a transport failure, with or without a response object, the handler
\* does not throw, and the stored callback is invoked with a
\* ConnectionException carrying the error's statusCode and response body.
C6_TransportFailureDelivered ==
  (st.last.kind = "post" /\ st.last.inErr.defined) =>
    /\ ~st.last.threw
    /\ st.last.stored # 0 =>
         /\ st.last.cb = st.last.stored
         /\ st.last.err =
              ConnectionException(st.last.inErr.statusCode,
                                  IF st.last.inErr.hasResponse
                                    THEN st.last.inErr.body ELSE Undefined)

\* C7: every refresh(refreshToken, cb) hands the transport a payload with
\* grant_type refresh_token, that refresh token, the fixed scope and no
\* authorization code; a payload with grant_type authorization_code and the
\* code comes from connect alone.
C7_RefreshPayload ==
  \A i \in Invs :
    st.posted[i].built =>
      /\ st.flows[i].kind = "refresh" =>
           /\ st.posted[i].grant_type = "refresh_token"
           /\ st.posted[i].refresh_token = st.flows[i].refreshToken
           /\ st.posted[i].scope = "openid profile api"
           /\ st.posted[i].code = Undefined
      /\ st.posted[i].grant_type = AC =>
           /\ st.flows[i].kind = "connect"
           /\ st.posted[i].code = conn.authorizationCode

\* The connection whose handler ran last.
LastConn == st.flows[st.last.by].conn

\* The last completion handled was a transport success carrying an access_token.
LastIsTokenSuccess ==
  /\ st.last.kind = "post" /\ ~st.last.inErr.defined
  /\ st.last.inToken.defined /\ Truthy(st.last.inToken.access_token)

\* C8 as claimed: after a successful response with access_token and
\* expires_in = N, for every N >= 0 and every clock reading, the connection's
\* tokenExpiration is now + N seconds.
C8_ExpirationIsNowPlusN ==
  (LastIsTokenSuccess /\ st.last.inToken.has_expires_in) =>
    st.tokenExpiration[LastConn] =
      DateAt(st.last.now + st.last.inToken.expires_in)

\* C8 amended: the same for every N >= 1 (expires_in = 0 is falsy and falls
\* back to the default expiration).
C8_ExpirationIsNowPlusPositiveN ==
  (LastIsTokenSuccess /\ st.last.inToken.has_expires_in
     /\ st.last.inToken.expires_in >= 1) =>
    st.tokenExpiration[LastConn] =
      DateAt(st.last.now + st.last.inToken.expires_in)

\* C8 witness: the authorization-code connection handled expires_in >= 1 while
\* the clock's seconds field was not 0.
C8_Witness ==
  /\ LastIsTokenSuccess /\ LastConn = AC
  /\ st.last.inToken.has_expires_in /\ st.last.inToken.expires_in >= 1
  /\ st.last.now % 60 # 0
  /\ st.tokenExpiration[AC].defined

\* C9: after a successful response with access_token and no expires_in, the
\* connection's tokenExpiration is now + the default expiration, whatever the
\* clock's seconds field.
C9_DefaultExpirationUsed ==
  (LastIsTokenSuccess /\ ~st.last.inToken.has_expires_in) =>
    st.tokenExpiration[LastConn] = DateAt(st.last.now + DefaultExpiration)

LastIsLoaderFailure ==
  st.last.kind = "loader" /\ st.flows[st.last.by].errored

LastIsSoftAbsence(s) ==
  /\ s.last.kind = "post" /\ ~s.last.inErr.defined
  /\ (~s.last.inToken.defined \/ ~Truthy(s.last.inToken.access_token))

C13_CallbackGetsOwnResponse ==
  (st.last.kind = "post" /\ st.last.cb # 0) => st.last.cb = st.last.by

\* Invocation i is the only one made on its connection, so nothing overlaps it.
Alone(i) ==
  /\ Started(i)
  /\ \A j \in Invs : (j # i /\ Started(j)) => st.flows[j].conn # st.flows[i].conn

\* C14: the callback of an invocation that nothing overlaps is eventually
\* invoked once the loader and the transport have completed: when neither is
\* pending for it any more, the callback has been invoked.
C14_CallbackEventuallyInvoked ==
  \A i \in Invs :
    (Alone(i) /\ st.flows[i].phase \notin InProgress) => st.calls[i] >= 1

\* The elements of a sequence.
Range(q) == {q[n] : n \in 1..Len(q)}

\* The certificate and key paths of the configuration.
ConfiguredPaths ==
  {p \in {conn.sslCertPath, conn.sslKeyPath} : Truthy(p)}

\* C15: the loader is called exactly when sslCertPath or sslKeyPath is
\* configured, once per invocation and with exactly the configured paths; it
\* is never called with an empty list, and inline strings do not trigger it.
C15_LoaderCalledIffPaths ==
  \A i \in Invs :
    Started(i) =>
      /\ st.flows[i].loaderCalls = IF ConfiguredPaths # {} THEN 1 ELSE 0
      /\ Range(st.flows[i].paths) = ConfiguredPaths
      /\ Len(st.flows[i].paths) = Cardinality(ConfiguredPaths)
      /\ st.flows[i].loaderCalls > 0 => Len(st.flows[i].paths) > 0

\* C15 witness: with an inline certificate string and only a key path, the
\* loader was called with the key path alone.
C15_Witness ==
  \E i \in Invs :
    /\ Truthy(conn.sslCertString) /\ ~Truthy(conn.sslCertPath)
    /\ st.flows[i].loaderCalls = 1 /\ st.flows[i].paths = <<KeyPath>>

\* The phase changes of one invocation that keep the order
\* Idle, LoadingCerts, RequestingToken, terminal; an exception that leaves a
\* handler ends the invocation from any phase.
PhaseOrder ==
  {<<"Idle", "LoadingCerts">>, <<"Idle", "RequestingToken">>,
   <<"LoadingCerts", "RequestingToken">>, <<"LoadingCerts", "Failed">>,
   <<"RequestingToken", "Completed">>, <<"RequestingToken", "Failed">>}
  \cup {<<ph, "Threw">> : ph \in {"Idle", "LoadingCerts", "RequestingToken"}}

\* C16: with a certificate path configured, the POST of an invocation is issued
\* only in the step in which the loader completes successfully for that
\* invocation; phases follow Idle, LoadingCerts, RequestingToken, terminal
\* (an escaping exception ends the invocation early); LoadingCerts is entered
\* only from Idle and only when a path is configured, and is skipped only when
\* none is.
C16_PostAfterLoader ==
  [][\A i \in Invs :
       /\ st'.postCount[i] > st.postCount[i] =>
            IF ConfiguredPaths # {}
              THEN /\ st.flows[i].phase = "LoadingCerts"
                   /\ st'.last.kind = "loader" /\ st'.last.by = i
                   /\ ~st'.flows[i].errored
                   /\ st'.certs[st.flows[i].conn] = st.flows[i].bundle
              ELSE st.flows[i].phase = "Idle"
       /\ st'.flows[i].phase # st.flows[i].phase =>
            /\ <<st.flows[i].phase, st'.flows[i].phase>> \in PhaseOrder
            /\ st'.flows[i].phase = "LoadingCerts" => ConfiguredPaths # {}
            /\ (st.flows[i].phase = "Idle" /\ st'.flows[i].phase = "RequestingToken")
                 => ConfiguredPaths = {}]_vars

\* C16 witness: with both paths configured an invocation called the loader,
\* then posted once, and completed.
C16_Witness ==
  \E i \in Invs :
    /\ Cardinality(ConfiguredPaths) = 2
    /\ st.flows[i].loaderCalls = 1 /\ st.flows[i].passedCerts
    /\ st.postCount[i] = 1 /\ st.flows[i].phase = "Completed"

\* The inline string when supplied, else the present content of the file.
Resolved(str, path) ==
  IF str # Undefined /\ str # "" THEN str ELSE files[path]

\* C17: every payload handed to the transport, of any of the three builders,
\* carries as ca and as cert the inline certificate string when supplied and
\* otherwise the content the certificate file has at that moment, and as key,
\* independently, the inline key string or the present content of the key file.
C17_TlsMaterialResolvedFresh ==
  [][\A i \in Invs :
       st'.postCount[i] > st.postCount[i] =>
         /\ st'.posted[i].ca = Resolved(conn.sslCertString, conn.sslCertPath)
         /\ st'.posted[i].cert = Resolved(conn.sslCertString, conn.sslCertPath)
         /\ st'.posted[i].key = Resolved(conn.sslKeyString, conn.sslKeyPath)]_vars

\* C17 witness: the certificate file changed after the loader had read it, so
\* the payload of one invocation differs from the bundle cached on its
\* connection and from the payload of another invocation.
C17_Witness ==
  \E i, j \in Invs :
    /\ st.postCount[i] = 1 /\ st.postCount[j] = 1
    /\ st.posted[i].ca # st.posted[j].ca
    /\ st.flows[i].loaderCalls = 1 /\ conn.sslCertPath = CertPath
    /\ st.certs[AC] = st.flows[i].bundle
    /\ st.certs[AC].map[CertPath] # st.posted[i].ca
    /\ st.flows[i].kind = "refresh" /\ Truthy(st.flows[i].refreshToken)

\* C18: a connect, a refresh, a loader completion or a transport completion of
\* one connection leaves the stored callback, the cached certificates and the
\* stored expiration of every other connection as they were.
C18_OtherConnectionUntouched ==
  [][st' # st =>
       \A d \in Conns :
         d # st'.flows[st'.last.by].conn =>
           /\ st'.cb[d] = st.cb[d]
           /\ st'.certs[d] = st.certs[d]
           /\ st'.tokenExpiration[d] = st.tokenExpiration[d]
           /\ st'.tokenExpirationMs[d] = st.tokenExpirationMs[d]]_vars

\* C18 witness: the authorization-code connection has just stored an expiration
\* while the client-credentials connection holds a pending callback, cached
\* certificates and no expiration.
C18_Witness ==
  /\ st.last.kind = "post" /\ st.flows[st.last.by].conn = AC
  /\ st.tokenExpiration[AC].defined
  /\ st.cb[CC] # 0 /\ st.certs[CC].defined /\ ~st.tokenExpiration[CC].defined

\* C19: a transport completion that carries an error leaves tokenExpiration and
\* tokenExpirationMs of the connection as they were and hands the callback an
\* undefined token, whatever body came with the error.
C19_ErrorLeavesExpirationAndToken ==
  [][(st' # st /\ st'.last.kind = "post" /\ st'.last.inErr.defined) =>
       /\ st'.tokenExpiration = st.tokenExpiration
       /\ st'.tokenExpirationMs = st.tokenExpirationMs
       /\ st'.last.cb # 0 => st'.last.token = NoToken]_vars

\* C20: tokenExpiration changes only in a step that hands a token with an
\* access_token to a callback; a transport completion that finds no callback
\* stored invokes none, does not throw and leaves tokenExpiration as it was.
C20_ExpirationOnlyWithDelivery ==
  [][/\ (st'.tokenExpiration # st.tokenExpiration) =>
          (st'.last.cb # 0 /\ Truthy(st'.last.token.access_token))
     /\ (st' # st /\ st'.last.kind = "post" /\ st'.last.stored = 0) =>
          /\ st'.calls = st.calls /\ ~st'.last.threw
          /\ st'.tokenExpiration = st.tokenExpiration]_vars

====
